---- MODULE Spec2Model ----
(***************************************************************************)
(* A model of autoimpute's PredictiveImputer (fit / transform /            *)
(* fit_transform over a DataFrame) and of the LRDImputer series imputer.   *)
(*                                                                         *)
(* A DataFrame is a sequence of columns (the column order), each column a  *)
(* record [name, type, cells]; a cell is <<>> (null) or <<v>> (a value).   *)
(* Rows are the positions 1..NRows.                                        *)
(***************************************************************************)
EXTENDS Integers, Sequences, FiniteSets, TLC

VARIABLES imp,      \* the PredictiveImputer instance (imp.exists = FALSE: none)
          lrd,      \* the LRDImputer instance (lrd.exists = FALSE: none)
          X,        \* the caller's table object as it is after the last call
          X0,       \* the table as it was on entry to the last call
          ret,      \* the table returned by the last call (<<>>: none)
          err,      \* the error raised by the last call ("": none)
          op,       \* the last call: [name, new_data, s]
          fitLog,   \* columns whose model fit ran to completion, last fit
          impLog,   \* columns whose model impute was invoked, last transform
          fits,     \* number of fit calls made so far
          transforms, \* number of transform (impute) calls made so far
          fitX      \* the table of the last fit call that succeeded (<<>>: none)

vars == <<imp, lrd, X, X0, ret, err, op, fitLog, impLog, fits, transforms, fitX>>

(***************************************************************************)
(* Bounds of the model.                                                    *)
(***************************************************************************)
NRows == 2
MaxFits == 1
MaxTransforms == 1
MaxNoise == 1

Rows == 1..NRows
Cols == {"A", "B"}
Noise == 0..MaxNoise

(***************************************************************************)
(* Cells, columns and frames.                                              *)
(***************************************************************************)
Null == <<>>
isnull(c) == c = Null

Max(S) == CHOOSE m \in S : \A n \in S : n <= m
Min(S) == CHOOSE m \in S : \A n \in S : m <= n

columns(F) == [i \in DOMAIN F |-> F[i].name]
ColSet(F) == {F[i].name : i \in DOMAIN F}
Column(F, c) == F[CHOOSE i \in DOMAIN F : F[i].name = c]
Observed(col) == {col.cells[r][1] : r \in {q \in DOMAIN col.cells : ~isnull(col.cells[q])}}
AllNull(col) == \A r \in DOMAIN col.cells : isnull(col.cells[r])
NoNulls(F) == \A i \in DOMAIN F : \A r \in DOMAIN F[i].cells : ~isnull(F[i].cells[r])

\* The input tables the model draws from.  Column A is numerical or
\* categorical: row r holds the value r or is null.  Column B is a numerical
\* covariate of 1s whose first row may be null.  A table holds A and B (in
\* that order), or one of them.
CellsA == {f \in [Rows -> {Null} \cup {<<v>> : v \in Rows}] : \A r \in Rows : f[r] \in {Null, <<r>>}}
CellsB == {f \in [Rows -> {Null, <<1>>}] : \A r \in Rows : isnull(f[r]) => r = 1}
ColumnsA == {[name |-> "A", type |-> t, cells |-> c] : t \in {"num", "cat"}, c \in CellsA}
ColumnsB == {[name |-> "B", type |-> "num", cells |-> c] : c \in CellsB}
Frames == {<<a, b>> : a \in ColumnsA, b \in ColumnsB}
            \cup {<<a>> : a \in ColumnsA} \cup {<<b>> : b \in ColumnsB}

(***************************************************************************)
(* Strategy names (autoimpute.imputations.method_names) and the registry.  *)
(***************************************************************************)
DEFAULT == "default"
LS == "least squares"
BINARY_LOGISTIC == "binary logistic"
MULTI_LOGISTIC == "multinomial logistic"
STOCHASTIC == "stochastic"
BAYESIAN_LS == "bayesian least squares"
BAYESIAN_BINARY_LOGISTIC == "bayesian binary logistic"
PMM == "pmm"
LRD == "lrd"
NONE == "none"

\* The identifiers the specification enumerates for a strategy assignment.
EnumeratedStrategies == {DEFAULT, LS, BINARY_LOGISTIC, MULTI_LOGISTIC, STOCHASTIC,
                         BAYESIAN_LS, BAYESIAN_BINARY_LOGISTIC, PMM, LRD, NONE}

\* Identifiers a caller may pass.
StrategyInputs == EnumeratedStrategies \cup {"bogus"}

\* A registry that also admits LRD, as the specification's enumeration does.
strategies_with_lrd == {DEFAULT, LS, BINARY_LOGISTIC, MULTI_LOGISTIC, STOCHASTIC,
                        BAYESIAN_LS, BAYESIAN_BINARY_LOGISTIC, PMM, LRD}

\* PredictiveImputer.strategies: the keys of the class-level dict.
strategies == {DEFAULT, LS, BINARY_LOGISTIC, MULTI_LOGISTIC, STOCHASTIC,
               BAYESIAN_LS, BAYESIAN_BINARY_LOGISTIC, PMM}

\* A strategy argument: a string broadcast to every column, or an ordered
\* dict of (column, strategy) items.
StrStrategy(s) == [kind |-> "str", s |-> s, d |-> <<>>]
DictStrategy(c, s) == [kind |-> "dict", s |-> "", d |-> <<[col |-> c, s |-> s]>>]
StrategyArgs == {StrStrategy(s) : s \in StrategyInputs}
                  \cup {DictStrategy("A", s) : s \in StrategyInputs}

\* BaseImputer.check_strategy_allowed: every strategy named must be a key of
\* the registry.
check_strategy_allowed(strat_names, s) ==
    IF s.kind = "str"
    THEN s.s \in strat_names
    ELSE \A i \in DOMAIN s.d : s.d[i].s \in strat_names

(***************************************************************************)
(* The PredictiveImputer instance.                                         *)
(***************************************************************************)
\* No instance: what the fields hold before __init__ has run.
NoImputer ==
    [exists |-> FALSE, strategy |-> StrStrategy(DEFAULT), copy |-> TRUE,
     fitted |-> FALSE, strats |-> <<>>, preds |-> <<>>, data |-> <<>>,
     statistics_ |-> <<>>,
     imputed_ |-> <<>>, traces_ |-> <<>>]

\* The strategy setter: the strategy is stored only if the registry allows it.
strategy_setter(s) == check_strategy_allowed(strategies, s)

\* PredictiveImputer.__init__: [self, err].  `fitted` says whether the
\* attribute statistics_ exists.
init(s, copy) ==
    IF strategy_setter(s)
    THEN [self |-> [NoImputer EXCEPT !.exists = TRUE, !.strategy = s, !.copy = copy],
          err |-> ""]
    ELSE [self |-> NoImputer, err |-> "UnknownStrategy"]

(***************************************************************************)
(* Helpers of the package that fit and transform call.                     *)
(***************************************************************************)
\* The check_nan_columns decorator: TRUE when the table is rejected because a
\* column has no observed value.
check_nan_columns(F) == \E i \in DOMAIN F : AllNull(F[i])

\* pm._predictive_default picks the model by the column's type.
Resolve(s, type) ==
    IF s = DEFAULT THEN (IF type = "num" THEN LS ELSE BINARY_LOGISTIC) ELSE s

NumericOnly == {LS, STOCHASTIC, BAYESIAN_LS, PMM, LRD}
CategoricalOnly == {BINARY_LOGISTIC, MULTI_LOGISTIC, BAYESIAN_BINARY_LOGISTIC}
BinaryOnly == {BINARY_LOGISTIC, BAYESIAN_BINARY_LOGISTIC}

\* The validation error of one (column, strategy) item on table F ("": none).
ItemError(item, F) ==
    LET y == Column(F, item.col)
        r == Resolve(item.s, y.type)
    IN  IF r \in NumericOnly /\ y.type # "num" THEN "StrategyMismatch"
        ELSE IF r \in CategoricalOnly /\ y.type # "cat" THEN "StrategyMismatch"
        ELSE IF r \in BinaryOnly /\ Cardinality(Observed(y)) # 2 THEN "InvalidClassCount"
        ELSE ""

\* The per-column strategy items of a strategy argument on table F: a string
\* is broadcast over the columns in order, a dict is taken as it is.
StrategyItems(s, F) ==
    IF s.kind = "str" THEN [i \in DOMAIN F |-> [col |-> F[i].name, s |-> s.s]] ELSE s.d

\* BaseImputer.check_strategy_fit without the type checks: only that a dict
\* names columns of the table.
check_strategy_columns(s, F) ==
    LET items == StrategyItems(s, F)
    IN  IF \E i \in DOMAIN items : items[i].col \notin ColSet(F)
        THEN [err |-> "StrategyMismatch", strats |-> <<>>]
        ELSE [err |-> "", strats |-> items]

\* BaseImputer.check_strategy_fit: [err, strats].  Every item is validated
\* against its column's type and classes; the first failing item raises.
check_strategy_fit(s, F) ==
    LET c == check_strategy_columns(s, F)
        bad == {i \in DOMAIN c.strats : ItemError(c.strats[i], F) # ""}
    IN  IF c.err # "" THEN c
        ELSE IF bad # {} THEN [err |-> ItemError(c.strats[Min(bad)], F), strats |-> <<>>]
        ELSE c

\* BaseImputer.check_predictors_fit with predictors "all": every column of
\* the table gets all the others as predictors.
check_predictors_fit(F) == [i \in DOMAIN F |-> [col |-> F[i].name, preds |-> "all"]]

\* _prep_fit_dataframe: the prepared predictor data is derived from the table.
_prep_fit_dataframe(F) == F

\* _prep_predictor_cols with predictors "all": every prepared column but col.
_prep_predictor_cols(col, data) ==
    SelectSeq(data, LAMBDA c : c.name # col)

\* A model's fit function raises without a predictor, and a classifier
\* raises on a response with fewer than two classes.
fit_raises(func_name, x, y) ==
    \/ x = <<>>
    \/ Resolve(func_name, y.type) \in CategoricalOnly /\ Cardinality(Observed(y)) < 2

\* A model's fit function (pm._fit_*): [param, strategy], the fitted
\* parameters and the resolved strategy name.
fit_model(func_name, x, y) ==
    [param |-> [alpha |-> Max(Observed(y)), preds |-> columns(x), yobs |-> Observed(y)],
     strategy |-> Resolve(func_name, y.type)]

(***************************************************************************)
(* fit                                                                     *)
(***************************************************************************)
\* _fit_strategy_validator: [self, err].
_fit_strategy_validator(self, F) ==
    LET c == check_strategy_fit(self.strategy, F)
    IN  IF c.err # "" THEN [self |-> self, err |-> c.err]
        ELSE [self |-> [self EXCEPT !.strats = c.strats, !.preds = check_predictors_fit(F),
                                  !.data = _prep_fit_dataframe(F)],
              err |-> ""]

RECURSIVE FitLoopKeepName(_, _, _, _, _)
\* The fit loop storing the requested name (func_name) instead of the name
\* the fit function returns.
FitLoopKeepName(self, F, failAt, i, log) ==
    IF i > Len(self.strats) THEN [self |-> self, err |-> "", log |-> log]
    ELSE LET col_name == self.strats[i].col
             func_name == self.strats[i].s
             x == _prep_predictor_cols(col_name, self.data)
             y == Column(F, col_name)
         IN  IF func_name \notin strategies THEN [self |-> self, err |-> "KeyError", log |-> log]
             ELSE IF failAt = col_name \/ fit_raises(func_name, x, y)
             THEN [self |-> self, err |-> "ModelError", log |-> log]
             ELSE LET f == fit_model(func_name, x, y)
                      entry == [col |-> col_name, param |-> f.param, strategy |-> func_name]
                  IN  FitLoopKeepName([self EXCEPT !.statistics_ = Append(@, entry)],
                                      F, failAt, i + 1, Append(log, col_name))

RECURSIVE FitLoop(_, _, _, _, _)
\* The loop of fit over self._strats.items(), from item i on: [self, err, log].
\* A column's fit function raises when it is the column of failAt or when the
\* column has no predictor.
FitLoop(self, F, failAt, i, log) ==
    IF i > Len(self.strats) THEN [self |-> self, err |-> "", log |-> log]
    ELSE LET col_name == self.strats[i].col
             func_name == self.strats[i].s
             x == _prep_predictor_cols(col_name, self.data)
             y == Column(F, col_name)
         IN  IF func_name \notin strategies THEN [self |-> self, err |-> "KeyError", log |-> log]
             ELSE IF failAt = col_name \/ fit_raises(func_name, x, y)
             THEN [self |-> self, err |-> "ModelError", log |-> log]
             ELSE LET f == fit_model(func_name, x, y)
                      entry == [col |-> col_name, param |-> f.param, strategy |-> f.strategy]
                  IN  FitLoop([self EXCEPT !.statistics_ = Append(@, entry)],
                              F, failAt, i + 1, Append(log, col_name))

RECURSIVE FitLoopValidating(_, _, _, _, _)
\* A fit loop that validates each column only when its turn comes.
FitLoopValidating(self, F, failAt, i, log) ==
    IF i > Len(self.strats) THEN [self |-> self, err |-> "", log |-> log]
    ELSE LET col_name == self.strats[i].col
             func_name == self.strats[i].s
             x == _prep_predictor_cols(col_name, self.data)
             y == Column(F, col_name)
         IN  IF ItemError(self.strats[i], F) # ""
             THEN [self |-> self, err |-> ItemError(self.strats[i], F), log |-> log]
             ELSE IF failAt = col_name \/ fit_raises(func_name, x, y)
             THEN [self |-> self, err |-> "ModelError", log |-> log]
             ELSE LET f == fit_model(func_name, x, y)
                      entry == [col |-> col_name, param |-> f.param, strategy |-> f.strategy]
                  IN  FitLoopValidating([self EXCEPT !.statistics_ = Append(@, entry)],
                                        F, failAt, i + 1, Append(log, col_name))

\* fit with the type and class validation done column by column in the loop.
fit_validating_in_loop(self, F, failAt) ==
    LET c == check_strategy_columns(self.strategy, F)
    IN  IF check_nan_columns(F) THEN [self |-> self, err |-> "AllColumnsNull", log |-> <<>>]
        ELSE IF c.err # "" THEN [self |-> self, err |-> c.err, log |-> <<>>]
        ELSE FitLoopValidating(
                 [self EXCEPT !.strats = c.strats, !.preds = check_predictors_fit(F),
                              !.data = _prep_fit_dataframe(F),
                              !.fitted = TRUE, !.statistics_ = <<>>],
                 F, failAt, 1, <<>>)

\* fit without the reset of statistics_ before the loop.
fit_accumulating(self, F, failAt) ==
    LET v == _fit_strategy_validator(self, F)
    IN  IF check_nan_columns(F) THEN [self |-> self, err |-> "AllColumnsNull", log |-> <<>>]
        ELSE IF v.err # "" THEN [self |-> v.self, err |-> v.err, log |-> <<>>]
        ELSE FitLoop([v.self EXCEPT !.fitted = TRUE], F, failAt, 1, <<>>)

\* PredictiveImputer.fit: [self, err, log].  On success the caller gets self.
fit(self, F, failAt) ==
    LET v == _fit_strategy_validator(self, F)
    IN  IF check_nan_columns(F) THEN [self |-> self, err |-> "AllColumnsNull", log |-> <<>>]
        ELSE IF v.err # "" THEN [self |-> v.self, err |-> v.err, log |-> <<>>]
        ELSE FitLoop([v.self EXCEPT !.fitted = TRUE, !.statistics_ = <<>>],
                     F, failAt, 1, <<>>)

(***************************************************************************)
(* transform                                                               *)
(***************************************************************************)
\* The validator without the check_is_fitted call.
_transform_strategy_validator_unchecked(self, F, new_data) ==
    LET fit_cols == {self.strats[i].col : i \in DOMAIN self.strats}
        diff_fit == fit_cols \ ColSet(F)
    IN  IF diff_fit # {} THEN [self |-> self, err |-> "SchemaMismatch"]
        ELSE IF new_data THEN [self |-> [self EXCEPT !.data = _prep_fit_dataframe(F)], err |-> ""]
        ELSE [self |-> self, err |-> ""]

\* _transform_strategy_validator: [self, err].  check_is_fitted looks for the
\* attribute statistics_; the column check compares the keys of self._strats
\* with the table's columns; new data is prepared again.
_transform_strategy_validator(self, F, new_data) ==
    LET fit_cols == {self.strats[i].col : i \in DOMAIN self.strats}
        diff_fit == fit_cols \ ColSet(F)
    IN  IF ~self.fitted THEN [self |-> self, err |-> "NotFitted"]
        ELSE IF diff_fit # {} THEN [self |-> self, err |-> "SchemaMismatch"]
        ELSE IF new_data THEN [self |-> [self EXCEPT !.data = _prep_fit_dataframe(F)], err |-> ""]
        ELSE [self |-> self, err |-> ""]

\* An index of positions to impute that takes every row of the column.
null_index_all(W, col_name) == DOMAIN Column(W, col_name).cells

\* imp_ix: the positions of the column that are null.
null_index(W, col_name) ==
    {r \in DOMAIN Column(W, col_name).cells : isnull(Column(W, col_name).cells[r])}

\* The SingleImputer fallback on the predictor rows imp_ix: [err, x].  It is
\* run only when a covariate is missing; it rejects a covariate with no
\* observed value in those rows and fills the others' nulls from the observed.
single_imputer(x, imp_ix) ==
    LET obs(c) == {c.cells[r][1] : r \in {q \in imp_ix : ~isnull(c.cells[q])}}
        missing(c) == \E r \in imp_ix : isnull(c.cells[r])
        filled(c) == [c EXCEPT !.cells = [r \in DOMAIN c.cells |->
                         IF r \in imp_ix /\ isnull(c.cells[r]) THEN <<Max(obs(c))>>
                         ELSE c.cells[r]]]
    IN  IF \A i \in DOMAIN x : ~missing(x[i]) THEN [err |-> "", x |-> x]
        ELSE IF \E i \in DOMAIN x : obs(x[i]) = {} THEN [err |-> "AllColumnsNull", x |-> x]
        ELSE [err |-> "", x |-> [i \in DOMAIN x |-> filled(x[i])]]

RECURSIVE RowSum(_, _, _)
\* beta . x for row r, with unit coefficients, over the columns from i on.
RowSum(x, r, i) == IF i > Len(x) THEN 0 ELSE x[i].cells[r][1] + RowSum(x, r, i + 1)

\* The n-th smallest element of S, counting cyclically from 0.
Pick(S, n) ==
    CHOOSE v \in S : Cardinality({w \in S : w < v}) = n % Cardinality(S)

\* The strategies transform has a branch for that calls a model's impute.
Dispatched == {LS, BINARY_LOGISTIC, MULTI_LOGISTIC, STOCHASTIC, BAYESIAN_LS,
               BAYESIAN_BINARY_LOGISTIC, PMM}
\* The branches that record a trace.
Traced == {BAYESIAN_LS, BAYESIAN_BINARY_LOGISTIC, PMM}

\* The value a model's impute function (pm._imp_*) gives for row r.
imp_value(strat, fill, x, r, noise) ==
    IF strat = LS THEN fill.alpha + RowSum(x, r, 1)
    ELSE IF strat \in {STOCHASTIC, BAYESIAN_LS} THEN fill.alpha + RowSum(x, r, 1) + noise
    ELSE IF strat \in {BINARY_LOGISTIC, MULTI_LOGISTIC} THEN Pick(fill.yobs, RowSum(x, r, 1))
    ELSE Pick(fill.yobs, noise)

\* The model's impute function writes its values into table W at imp_ix.
splice(W, col_name, imp_ix, strat, fill, x, noise) ==
    [i \in DOMAIN W |->
        IF W[i].name # col_name THEN W[i]
        ELSE [W[i] EXCEPT !.cells = [r \in DOMAIN W[i].cells |->
                 IF r \in imp_ix THEN <<imp_value(strat, fill, x, r, noise)>>
                 ELSE W[i].cells[r]]]]

RECURSIVE TransformLoopNoSkip(_, _, _, _, _, _)
\* The transform loop without the `continue` for a column with nothing to
\* impute.
TransformLoopNoSkip(self, W, failAt, noise, i, log) ==
    IF i > Len(self.statistics_) THEN [self |-> self, W |-> W, err |-> "", log |-> log]
    ELSE LET fit_data == self.statistics_[i]
             col_name == fit_data.col
             strat == fit_data.strategy
             fill == fit_data.param
             imp_ix == null_index(W, col_name)
             self1 == [self EXCEPT !.imputed_ = Append(@, [col |-> col_name, ix |-> imp_ix])]
             x == _prep_predictor_cols(col_name, self.data)
             sx == single_imputer(x, imp_ix)
             self2 == IF strat \in Traced
                      THEN [self1 EXCEPT !.traces_ = Append(@, col_name)] ELSE self1
         IN  IF sx.err # "" THEN [self |-> self1, W |-> W, err |-> sx.err, log |-> log]
             ELSE IF strat \notin Dispatched
             THEN TransformLoopNoSkip(self1, W, failAt, noise, i + 1, log)
             ELSE IF failAt = col_name \/ columns(x) # fill.preds
             THEN [self |-> self1, W |-> W, err |-> "ModelError", log |-> Append(log, col_name)]
             ELSE TransformLoopNoSkip(self2, splice(W, col_name, imp_ix, strat, fill, sx.x, noise),
                                failAt, noise, i + 1, Append(log, col_name))

RECURSIVE TransformLoopRecordImputed(_, _, _, _, _, _)
\* The transform loop recording imputed_ only once a column is known to have
\* something to impute (after the `continue`).
TransformLoopRecordImputed(self, W, failAt, noise, i, log) ==
    IF i > Len(self.statistics_) THEN [self |-> self, W |-> W, err |-> "", log |-> log]
    ELSE LET fit_data == self.statistics_[i]
             col_name == fit_data.col
             strat == fit_data.strategy
             fill == fit_data.param
             imp_ix == null_index(W, col_name)
             self1 == [self EXCEPT !.imputed_ = Append(@, [col |-> col_name, ix |-> imp_ix])]
             x == _prep_predictor_cols(col_name, self.data)
             sx == single_imputer(x, imp_ix)
             self2 == IF strat \in Traced
                      THEN [self1 EXCEPT !.traces_ = Append(@, col_name)] ELSE self1
         IN  IF imp_ix = {} THEN TransformLoopRecordImputed(self, W, failAt, noise, i + 1, log)
             ELSE IF sx.err # "" THEN [self |-> self1, W |-> W, err |-> sx.err, log |-> log]
             ELSE IF strat \notin Dispatched
             THEN TransformLoopRecordImputed(self1, W, failAt, noise, i + 1, log)
             ELSE IF failAt = col_name \/ columns(x) # fill.preds
             THEN [self |-> self1, W |-> W, err |-> "ModelError", log |-> Append(log, col_name)]
             ELSE TransformLoopRecordImputed(self2,
                                splice(W, col_name, imp_ix, strat, fill, sx.x, noise),
                                failAt, noise, i + 1, Append(log, col_name))

RECURSIVE TransformLoop(_, _, _, _, _, _)
\* The loop of transform over self.statistics_.items(), from entry i on:
\* [self, W, err, log].  A model's impute raises when its column is failAt
\* or when the predictors differ from those it was fit with.
TransformLoop(self, W, failAt, noise, i, log) ==
    IF i > Len(self.statistics_) THEN [self |-> self, W |-> W, err |-> "", log |-> log]
    ELSE LET fit_data == self.statistics_[i]
             col_name == fit_data.col
             strat == fit_data.strategy
             fill == fit_data.param
             imp_ix == null_index(W, col_name)
             self1 == [self EXCEPT !.imputed_ = Append(@, [col |-> col_name, ix |-> imp_ix])]
             x == _prep_predictor_cols(col_name, self.data)
             sx == single_imputer(x, imp_ix)
             self2 == IF strat \in Traced
                      THEN [self1 EXCEPT !.traces_ = Append(@, col_name)] ELSE self1
         IN  IF imp_ix = {} THEN TransformLoop(self1, W, failAt, noise, i + 1, log)
             ELSE IF sx.err # "" THEN [self |-> self1, W |-> W, err |-> sx.err, log |-> log]
             ELSE IF strat \notin Dispatched
             THEN TransformLoop(self1, W, failAt, noise, i + 1, log)
             ELSE IF failAt = col_name \/ columns(x) # fill.preds
             THEN [self |-> self1, W |-> W, err |-> "ModelError", log |-> Append(log, col_name)]
             ELSE TransformLoop(self2, splice(W, col_name, imp_ix, strat, fill, sx.x, noise),
                                failAt, noise, i + 1, Append(log, col_name))

\* transform without the reset of traces_ before the loop.
transform_keeping_traces(self, F, new_data, failAt, noise) ==
    LET v == _transform_strategy_validator(self, F, new_data)
    IN  IF check_nan_columns(F) THEN [self |-> self, W |-> F, err |-> "AllColumnsNull", log |-> <<>>]
        ELSE IF v.err # "" THEN [self |-> v.self, W |-> F, err |-> v.err, log |-> <<>>]
        ELSE TransformLoop([v.self EXCEPT !.imputed_ = <<>>], F, failAt, noise, 1, <<>>)

\* PredictiveImputer.transform: [self, W, err, log], W the working table (a
\* copy of F, or F itself when copy is off).
transform(self, F, new_data, failAt, noise) ==
    LET v == _transform_strategy_validator(self, F, new_data)
    IN  IF check_nan_columns(F) THEN [self |-> self, W |-> F, err |-> "AllColumnsNull", log |-> <<>>]
        ELSE IF v.err # "" THEN [self |-> v.self, W |-> F, err |-> v.err, log |-> <<>>]
        ELSE TransformLoop([v.self EXCEPT !.imputed_ = <<>>, !.traces_ = <<>>],
                           F, failAt, noise, 1, <<>>)

\* fit_transform run as a transform alone.
transform_only(self, F, failFit, failImp, noise) ==
    LET t == transform(self, F, FALSE, failImp, noise)
    IN  [self |-> t.self, W |-> t.W, err |-> t.err, fitLog |-> <<>>, impLog |-> t.log]

\* PredictiveImputer.fit_transform: self.fit(X).transform(X, False).
fit_transform(self, F, failFit, failImp, noise) ==
    LET f == fit(self, F, failFit)
        t == transform(f.self, F, FALSE, failImp, noise)
    IN  IF f.err # ""
        THEN [self |-> f.self, W |-> F, err |-> f.err, fitLog |-> f.log, impLog |-> <<>>]
        ELSE [self |-> t.self, W |-> t.W, err |-> t.err, fitLog |-> f.log, impLog |-> t.log]

\* A transform that always works on the caller's table.
CallerObjectInPlace(self, F, W) == W

\* What the caller's table object holds after a transform that worked on W.
CallerObject(self, F, W) == IF self.copy THEN F ELSE W

(***************************************************************************)
(* The LRDImputer.                                                         *)
(***************************************************************************)
NoLRD ==
    [exists |-> FALSE, fill_value |-> "random", am |-> Null, bm |-> Null,
     fitted |-> FALSE, intercept_ |-> Null, coef_ |-> Null,
     prior |-> [am |-> Null, bm |-> Null], y_obs |-> {}, sampled |-> FALSE]

FillValues == {"mean", "random", "median"}
\* The predictor matrices impute is given: complete rows, as many as there
\* are values to impute.
PredictorRows ==
    {[name |-> "B", type |-> "num", cells |-> [r \in 1..k |-> <<1>>]] : k \in 1..NRows}
PriorMeans == {Null, <<0>>}

\* LRDImputer.__init__
lrd_init(fill_value, am, bm) ==
    [NoLRD EXCEPT !.exists = TRUE, !.fill_value = fill_value, !.am = am, !.bm = bm]

\* LRDImputer.fit: [self, err, log].  The response must be numerical; the least
\* squares fit needs complete data; am and bm take the least-squares
\* estimates only while they are None; the model's priors use am and bm.
lrd_fit(self, x, y) ==
    LET intercept == Min(Observed(y))
        coef == Max(Observed(y)) - Min(Observed(y))
        lm == [self EXCEPT !.intercept_ = <<intercept>>, !.coef_ = <<coef>>]
        s1 == IF lm.am = Null THEN [lm EXCEPT !.am = lm.intercept_] ELSE lm
        s2 == IF s1.bm = Null THEN [s1 EXCEPT !.bm = s1.coef_] ELSE s1
    IN  IF y.type # "num" THEN [self |-> self, err |-> "StrategyMismatch", log |-> <<>>]
        ELSE IF ~NoNulls(<<x, y>>) THEN [self |-> self, err |-> "ModelError", log |-> <<>>]
        ELSE [self |-> [s2 EXCEPT !.fitted = TRUE, !.y_obs = Observed(y),
                                  !.prior = [am |-> s2.am, bm |-> s2.bm]],
              err |-> "", log |-> <<y.name>>]

\* An impute that takes any fill_value other than "mean" for "random".
lrd_impute_lenient(self, x, noise) ==
    LET alpha_bayes == self.intercept_[1] + noise
        beta_bayes == self.coef_[1]
        y_pred_bayes == [r \in DOMAIN x.cells |-> alpha_bayes + beta_bayes * x.cells[r][1]]
        local_mean(p) == Max(self.y_obs) + (p - Max(self.y_obs))
        local_random(p) == Pick(self.y_obs, noise) + (p - Pick(self.y_obs, noise))
        s1 == [self EXCEPT !.sampled = TRUE]
    IN  IF ~self.fitted THEN [self |-> self, err |-> "NotFitted", imp |-> <<>>]
        ELSE IF self.fill_value = "mean"
        THEN [self |-> s1, err |-> "",
              imp |-> [r \in DOMAIN x.cells |-> <<local_mean(y_pred_bayes[r])>>]]
        ELSE [self |-> s1, err |-> "",
              imp |-> [r \in DOMAIN x.cells |-> <<local_random(y_pred_bayes[r])>>]]

\* LRDImputer.impute: [self, err, imp], imp one value per row of x.
lrd_impute(self, x, noise) ==
    LET alpha_bayes == self.intercept_[1] + noise
        beta_bayes == self.coef_[1]
        y_pred_bayes == [r \in DOMAIN x.cells |-> alpha_bayes + beta_bayes * x.cells[r][1]]
        local_mean(p) == Max(self.y_obs) + (p - Max(self.y_obs))
        local_random(p) == Pick(self.y_obs, noise) + (p - Pick(self.y_obs, noise))
        s1 == [self EXCEPT !.sampled = TRUE]
    IN  IF ~self.fitted THEN [self |-> self, err |-> "NotFitted", imp |-> <<>>]
        ELSE IF self.fill_value = "mean"
        THEN [self |-> s1, err |-> "",
              imp |-> [r \in DOMAIN x.cells |-> <<local_mean(y_pred_bayes[r])>>]]
        ELSE IF self.fill_value = "random"
        THEN [self |-> s1, err |-> "",
              imp |-> [r \in DOMAIN x.cells |-> <<local_random(y_pred_bayes[r])>>]]
        ELSE [self |-> s1, err |-> "InvalidFillValue", imp |-> <<>>]

(***************************************************************************)
(* The state machine: one action per call.                                 *)
(***************************************************************************)
NoOp == [name |-> "", new_data |-> FALSE, s |-> StrStrategy(DEFAULT)]
FailAts == Cols \cup {"none"}

\* The inputs that can make a difference to a call: a model can fail only on
\* a column it is run on, and a draw matters only to a sampling strategy.
Sampling == {STOCHASTIC, BAYESIAN_LS, BAYESIAN_BINARY_LOGISTIC, PMM}
FitFailures(F) == {"none"} \cup ColSet(F)
ImputeFailures(self, F) ==
    {"none"} \cup {c \in ColSet(F) :
                     /\ \E r \in Rows : isnull(Column(F, c).cells[r])
                     /\ self.strategy.kind = "dict" =>
                            \E i \in DOMAIN self.strategy.d : self.strategy.d[i].col = c}
Draws(self) ==
    IF (self.strategy.kind = "str" /\ self.strategy.s \in Sampling)
       \/ \E i \in DOMAIN self.strategy.d : self.strategy.d[i].s \in Sampling
    THEN Noise ELSE {0}

Init ==
    /\ imp = NoImputer
    /\ lrd = NoLRD
    /\ X = <<>>
    /\ X0 = <<>>
    /\ ret = <<>>
    /\ err = ""
    /\ op = NoOp
    /\ fitLog = <<>>
    /\ impLog = <<>>
    /\ fits = 0
    /\ transforms = 0
    /\ fitX = <<>>

\* imp = PredictiveImputer(strategy=s, copy=copy)
New ==
    /\ ~imp.exists /\ ~lrd.exists
    /\ \E s \in StrategyArgs, copy \in BOOLEAN :
        /\ imp' = init(s, copy).self
        /\ err' = init(s, copy).err
        /\ op' = [name |-> "new", new_data |-> FALSE, s |-> s]
        /\ ret' = <<>> /\ fitLog' = <<>> /\ impLog' = <<>>
        /\ UNCHANGED <<fits, transforms, fitX>>
        /\ UNCHANGED <<lrd, X, X0>>

\* imp.fit(F)
Fit ==
    /\ fits < MaxFits
    /\ imp.exists
    /\ \E F \in Frames, failAt \in FailAts :
        \E r \in {fit(imp, F, failAt)} :
            /\ failAt \in FitFailures(F)
            /\ imp' = r.self
            /\ err' = r.err
            /\ X0' = F /\ X' = F
            /\ ret' = <<>>
            /\ op' = [name |-> "fit", new_data |-> FALSE, s |-> imp.strategy]
            /\ fitLog' = r.log /\ impLog' = <<>>
            /\ fits' = fits + 1 /\ UNCHANGED transforms
            /\ fitX' = IF r.err = "" THEN F ELSE fitX
            /\ UNCHANGED lrd

\* imp.transform(F, new_data)
Transform ==
    /\ transforms < MaxTransforms
    /\ imp.exists
    /\ \E F \in Frames, new_data \in BOOLEAN, failAt \in FailAts, noise \in Noise :
        \E r \in {transform(imp, F, new_data, failAt, noise)} :
            /\ failAt \in ImputeFailures(imp, F)
            /\ noise \in Draws(imp)
            /\ imp' = r.self
            /\ err' = r.err
            /\ X0' = F /\ X' = CallerObject(imp, F, r.W)
            /\ ret' = IF r.err = "" THEN r.W ELSE <<>>
            /\ op' = [name |-> "transform", new_data |-> new_data, s |-> imp.strategy]
            /\ fitLog' = <<>> /\ impLog' = r.log
            /\ transforms' = transforms + 1 /\ UNCHANGED <<fits, fitX>>
            /\ UNCHANGED lrd

\* imp.fit_transform(F)
FitTransform ==
    /\ fits < MaxFits /\ transforms < MaxTransforms
    /\ imp.exists
    /\ \E F \in Frames, failFit \in FailAts, failImp \in FailAts, noise \in Noise :
        \E r \in {fit_transform(imp, F, failFit, failImp, noise)} :
            /\ failFit \in FitFailures(F)
            /\ failImp \in ImputeFailures(imp, F)
            /\ noise \in Draws(imp)
            /\ failFit # "none" => (failImp = "none" /\ noise = 0)
            /\ imp' = r.self
            /\ err' = r.err
            /\ X0' = F /\ X' = CallerObject(imp, F, r.W)
            /\ ret' = IF r.err = "" THEN r.W ELSE <<>>
            /\ op' = [name |-> "fit_transform", new_data |-> FALSE, s |-> imp.strategy]
            /\ fitLog' = r.fitLog /\ impLog' = r.impLog
            /\ fits' = fits + 1 /\ transforms' = transforms + 1
            /\ fitX' = IF fit(imp, F, failFit).err = "" THEN F ELSE fitX
            /\ UNCHANGED lrd

\* lrd = LRDImputer(am=am, bm=bm, fill_value=fill_value)
LrdNew ==
    /\ ~imp.exists /\ ~lrd.exists
    /\ \E fv \in FillValues, m \in PriorMeans :
        /\ lrd' = lrd_init(fv, m, m)
        /\ err' = ""
        /\ op' = [name |-> "lrd_new", new_data |-> FALSE, s |-> StrStrategy(LRD)]
        /\ ret' = <<>> /\ fitLog' = <<>> /\ impLog' = <<>>
        /\ UNCHANGED <<fits, transforms, fitX>>
        /\ UNCHANGED <<imp, X, X0>>

\* lrd.fit(x, y)
LrdFit ==
    /\ fits < MaxFits
    /\ lrd.exists
    /\ \E y \in ColumnsA, x \in ColumnsB :
        \E r \in {lrd_fit(lrd, x, y)} :
            /\ lrd' = r.self
            /\ err' = r.err
            /\ X0' = <<y, x>> /\ X' = <<y, x>>
            /\ ret' = <<>>
            /\ op' = [name |-> "lrd_fit", new_data |-> FALSE, s |-> StrStrategy(LRD)]
            /\ fitLog' = r.log /\ impLog' = <<>>
            /\ fits' = fits + 1 /\ UNCHANGED <<transforms, fitX>>
            /\ UNCHANGED imp

\* lrd.impute(x)
LrdImpute ==
    /\ transforms < MaxTransforms
    /\ lrd.exists
    /\ \E x \in PredictorRows, noise \in Noise :
        \E r \in {lrd_impute(lrd, x, noise)} :
            /\ lrd' = r.self
            /\ err' = r.err
            /\ X0' = <<x>> /\ X' = <<x>>
            /\ ret' = IF r.err = "" THEN <<[name |-> "imp", type |-> "num", cells |-> r.imp]>>
                      ELSE <<>>
            /\ op' = [name |-> "lrd_impute", new_data |-> FALSE, s |-> StrStrategy(LRD)]
            /\ fitLog' = <<>> /\ impLog' = <<>>
            /\ transforms' = transforms + 1 /\ UNCHANGED <<fits, fitX>>
            /\ UNCHANGED imp

Next == New \/ Fit \/ Transform \/ FitTransform \/ LrdNew \/ LrdFit \/ LrdImpute

Spec == Init /\ [][Next]_vars

(***************************************************************************)
(* Longer lives of one instance: repeated fit and transform calls, on a    *)
(* narrower choice of strategies and tables and without injected model     *)
(* failures.                                                               *)
(***************************************************************************)
MaxSeqFits == 2
MaxSeqTransforms == 2

SeqStrategies ==
    {StrStrategy(DEFAULT), StrStrategy(LS), StrStrategy(PMM), DictStrategy("A", BAYESIAN_LS)}
SeqFrames == {F \in Frames : Len(F) = 2 /\ ~check_nan_columns(F)}
\* Complete numerical responses for the LRDImputer.
LrdResponses ==
    {[name |-> "A", type |-> "num", cells |-> c] : c \in [Rows -> {<<v>> : v \in Rows}]}

\* imp = PredictiveImputer(strategy=s)
SeqNew ==
    /\ ~imp.exists /\ ~lrd.exists
    /\ \E s \in SeqStrategies :
        /\ imp' = init(s, TRUE).self
        /\ err' = init(s, TRUE).err
        /\ op' = [name |-> "new", new_data |-> FALSE, s |-> s]
        /\ ret' = <<>> /\ fitLog' = <<>> /\ impLog' = <<>>
        /\ UNCHANGED <<fits, transforms, fitX>>
        /\ UNCHANGED <<lrd, X, X0>>

\* imp.fit(F), again and again
SeqFit ==
    /\ fits < MaxSeqFits
    /\ imp.exists
    /\ \E F \in SeqFrames :
        \E r \in {fit(imp, F, "none")} :
            /\ imp' = r.self
            /\ err' = r.err
            /\ X0' = F /\ X' = F
            /\ ret' = <<>>
            /\ op' = [name |-> "fit", new_data |-> FALSE, s |-> imp.strategy]
            /\ fitLog' = r.log /\ impLog' = <<>>
            /\ fits' = fits + 1 /\ UNCHANGED transforms
            /\ fitX' = IF r.err = "" THEN F ELSE fitX
            /\ UNCHANGED lrd

\* imp.transform(F, new_data), again and again
SeqTransform ==
    /\ transforms < MaxSeqTransforms
    /\ imp.exists
    /\ \E F \in SeqFrames, new_data \in BOOLEAN :
        \E r \in {transform(imp, F, new_data, "none", 0)} :
            /\ imp' = r.self
            /\ err' = r.err
            /\ X0' = F /\ X' = CallerObject(imp, F, r.W)
            /\ ret' = IF r.err = "" THEN r.W ELSE <<>>
            /\ op' = [name |-> "transform", new_data |-> new_data, s |-> imp.strategy]
            /\ fitLog' = <<>> /\ impLog' = r.log
            /\ transforms' = transforms + 1 /\ UNCHANGED <<fits, fitX>>
            /\ UNCHANGED lrd

\* lrd = LRDImputer(fill_value=fill_value), am and bm left None
SeqLrdNew ==
    /\ ~imp.exists /\ ~lrd.exists
    /\ \E fv \in FillValues :
        /\ lrd' = lrd_init(fv, Null, Null)
        /\ err' = ""
        /\ op' = [name |-> "lrd_new", new_data |-> FALSE, s |-> StrStrategy(LRD)]
        /\ ret' = <<>> /\ fitLog' = <<>> /\ impLog' = <<>>
        /\ UNCHANGED <<fits, transforms, fitX>>
        /\ UNCHANGED <<imp, X, X0>>

\* lrd.fit(x, y), again and again
SeqLrdFit ==
    /\ fits < MaxSeqFits
    /\ lrd.exists
    /\ \E y \in LrdResponses, x \in PredictorRows :
        \E r \in {lrd_fit(lrd, x, y)} :
            /\ Len(x.cells) = NRows
            /\ lrd' = r.self
            /\ err' = r.err
            /\ X0' = <<y, x>> /\ X' = <<y, x>>
            /\ ret' = <<>>
            /\ op' = [name |-> "lrd_fit", new_data |-> FALSE, s |-> StrStrategy(LRD)]
            /\ fitLog' = r.log /\ impLog' = <<>>
            /\ fits' = fits + 1 /\ UNCHANGED <<transforms, fitX>>
            /\ UNCHANGED imp

SeqNext == SeqNew \/ SeqFit \/ SeqTransform \/ SeqLrdNew \/ SeqLrdFit

SeqSpec == Init /\ [][SeqNext]_vars

(***************************************************************************)
(* Properties.                                                             *)
(***************************************************************************)
StatCols(self) == {self.statistics_[i].col : i \in DOMAIN self.statistics_}
StratCols(self) == {self.strats[i].col : i \in DOMAIN self.strats}
FitCols(self) == {self.preds[i].col : i \in DOMAIN self.preds}
NamesOf(s) == IF s.kind = "str" THEN {s.s} ELSE {s.d[i].s : i \in DOMAIN s.d}
HasNull(col) == \E r \in DOMAIN col.cells : isnull(col.cells[r])
SameShape(F, G) ==
    /\ columns(F) = columns(G)
    /\ \A i \in DOMAIN F : DOMAIN F[i].cells = DOMAIN G[i].cells /\ F[i].type = G[i].type
\* The (column, row) cells in which tables F and G of one shape differ.
Changed(F, G) ==
    {<<F[i].name, r>> : i \in DOMAIN F, r \in Rows} \cap
    {cr \in Cols \X Rows : Column(F, cr[1]).cells[cr[2]] # Column(G, cr[1]).cells[cr[2]]}
\* The cells of table F that are null and belong to a fitted column.
NullFittedCells(self, F) ==
    {cr \in StatCols(self) \X Rows :
        cr[1] \in ColSet(F) /\ isnull(Column(F, cr[1]).cells[cr[2]])}

\* C1: transform on an instance without fit statistics (fit never called, or
\* never got as far as creating them) raises the not-fitted error and
\* imputes nothing: no table is returned, the caller's table is untouched and
\* no model impute runs.  (A table with an all-null column is turned away by
\* the check_nan_columns decorator before transform's body runs.)  The same
\* holds of LRDImputer.impute: not-fitted error, no values, no sampling.
C1_TransformBeforeFitFails ==
    /\ (op.name = "transform" /\ ~imp.fitted) =>
          /\ err = IF check_nan_columns(X0) THEN "AllColumnsNull" ELSE "NotFitted"
          /\ ret = <<>> /\ X = X0 /\ impLog = <<>> /\ imp.imputed_ = <<>>
    /\ (op.name = "lrd_impute" /\ ~lrd.fitted) =>
          err = "NotFitted" /\ ret = <<>> /\ ~lrd.sampled

C1_Witness ==
    /\ op.name = "transform" /\ ~imp.fitted /\ fits = 0
    /\ err = "NotFitted" /\ \E i \in DOMAIN X0 : HasNull(X0[i])

\* C2: after a fit that fitted every column it was asked to, transform on a
\* table (without an all-null column) that lacks a column of the fitted
\* table raises the schema-mismatch error before any column is imputed,
\* whatever the strategy configuration.
C2_MissingColumnIsSchemaMismatch ==
    (/\ op.name = "transform" /\ imp.fitted
     /\ StatCols(imp) = StratCols(imp)
     /\ ~check_nan_columns(X0)
     /\ ~(FitCols(imp) \subseteq ColSet(X0)))
    => (err = "SchemaMismatch" /\ impLog = <<>> /\ X = X0)

\* C3: a transform changes no cell that was non-null on entry: the cells it
\* changes, in the caller's table and in the returned table, are null cells
\* of fitted columns; and in a returned table the changed rows of a least
\* squares or stochastic column are exactly its rows that were null.
C3_OnlyNullCellsChange ==
    op.name \in {"transform", "fit_transform"} =>
       /\ SameShape(X, X0)
       /\ Changed(X0, X) \subseteq NullFittedCells(imp, X0)
       /\ ret # <<>> =>
            /\ SameShape(ret, X0)
            /\ Changed(X0, ret) \subseteq NullFittedCells(imp, X0)
            /\ \A i \in DOMAIN imp.statistics_ :
                 imp.statistics_[i].strategy \in {LS, STOCHASTIC} =>
                    {r \in Rows : <<imp.statistics_[i].col, r>> \in Changed(X0, ret)}
                       = null_index(X0, imp.statistics_[i].col)

C3_Witness ==
    /\ op.name = "transform" /\ err = "" /\ ret # X0
    /\ \E i \in DOMAIN imp.statistics_ :
         /\ imp.statistics_[i].strategy \in {LS, STOCHASTIC}
         /\ HasNull(Column(X0, imp.statistics_[i].col))
         /\ ~AllNull(Column(X0, imp.statistics_[i].col))

\* C4: the table a successful transform or fit_transform returns has the
\* shape and column order of its input, and no fitted column whose strategy
\* is not "none" still holds a null.
C4_NoNullLeftInFittedColumns ==
    (op.name \in {"transform", "fit_transform"} /\ err = "") =>
       /\ SameShape(ret, X0)
       /\ \A i \in DOMAIN imp.statistics_ :
            imp.statistics_[i].strategy # NONE =>
               ~HasNull(Column(ret, imp.statistics_[i].col))

C4_Witness ==
    /\ op.name = "transform" /\ err = ""
    /\ \E i \in DOMAIN imp.statistics_ :
         /\ imp.statistics_[i].strategy = PMM
         /\ HasNull(Column(X0, imp.statistics_[i].col))
         /\ ~HasNull(Column(ret, imp.statistics_[i].col))

\* C5: a fitted imputer transforming a table without nulls (that holds the
\* columns it was fit with) returns the table as it is: no model impute is
\* invoked and imputed_ lists no row for any fitted column.
C5_NoNullsNoChange ==
    (/\ op.name = "transform" /\ imp.fitted
     /\ NoNulls(X0) /\ StratCols(imp) \subseteq ColSet(X0))
    => /\ err = "" /\ ret = X0 /\ X = X0
       /\ impLog = <<>>
       /\ Len(imp.imputed_) = Len(imp.statistics_)
       /\ \A i \in DOMAIN imp.imputed_ :
            imp.imputed_[i].col = imp.statistics_[i].col /\ imp.imputed_[i].ix = {}

C5_Witness ==
    /\ op.name = "transform" /\ imp.fitted /\ NoNulls(X0) /\ err = ""
    /\ Len(imp.statistics_) = Len(X0) /\ Len(X0) > 1

\* C6: a fit of table F followed by transform(F, new_data=False) leaves what
\* fit_transform(F) leaves on a fresh imputer of the same configuration:
\* the same returned table, statistics_ and imputed_ (the whole instance),
\* the same error if any, the same caller's table - under the same draws of
\* a sampling strategy.
C6_FitThenTransformIsFitTransform ==
    [][(/\ op.name = "fit" /\ err = ""
        /\ op'.name = "transform" /\ ~op'.new_data /\ X0' = X0)
       => \E failImp \in FailAts, noise \in Noise :
            LET r == fit_transform(init(imp.strategy, imp.copy).self, X0, "none", failImp, noise)
            IN  /\ imp' = r.self
                /\ err' = r.err
                /\ ret' = (IF r.err = "" THEN r.W ELSE <<>>)
                /\ X' = CallerObject(imp, X0, r.W)
                /\ impLog' = r.impLog]_vars

C6_Witness ==
    /\ op.name = "transform" /\ ~op.new_data /\ err = "" /\ fits = 1
    /\ imp.data = X0 /\ impLog # <<>> /\ Len(imp.statistics_) > 1

C8_NoPartialSuccess ==
    /\ (op.name = "fit" /\ err # "" /\ imp.fitted) => StatCols(imp) = StratCols(imp)
    /\ (op.name = "transform" /\ err # "") => X = X0

\* C9: construction accepts exactly the enumerated strategy identifiers and
\* rejects every other with the unknown-strategy error.
C9_RegistryIsTheEnumeratedSet ==
    op.name = "new" =>
       IF NamesOf(op.s) \subseteq EnumeratedStrategies
       THEN err = "" /\ imp.exists
       ELSE err = "UnknownStrategy" /\ ~imp.exists

C11_ImputedIsNullPositions ==
    (op.name \in {"transform", "fit_transform"} /\ err = "") =>
       /\ Len(imp.imputed_) = Len(imp.statistics_)
       /\ \A i \in DOMAIN imp.imputed_ :
            /\ imp.imputed_[i].col = imp.statistics_[i].col
            /\ imp.imputed_[i].ix = null_index(X0, imp.imputed_[i].col)
       /\ (op.name = "fit_transform" /\ op.s = StrStrategy(LS)) =>
            \A noise \in Noise :
               fit_transform(init(StrStrategy(STOCHASTIC), imp.copy).self,
                             X0, "none", "none", noise).self.imputed_ = imp.imputed_

C11_Witness ==
    /\ op.name = "fit_transform" /\ err = "" /\ op.s = StrStrategy(LS)
    /\ \E i, j \in DOMAIN imp.imputed_ :
         imp.imputed_[i].ix = {} /\ imp.imputed_[j].ix # {}

\* C12: with copy on, transform leaves the caller's table cell for cell as
\* it was, whether it returns or raises, and the imputed values are in the
\* returned table only; with copy off, the table returned is the caller's
\* table, imputed in place.
C12_CopyLeavesCallerTable ==
    op.name \in {"transform", "fit_transform"} =>
       /\ imp.copy => X = X0
       /\ (~imp.copy /\ err = "") => (ret = X /\ Changed(X0, X) = NullFittedCells(imp, X0))

C12_Witness ==
    /\ op.name = "transform" /\ imp.copy /\ err = ""
    /\ ret # X0 /\ X = X0

\* C13: impute on a fitted LRDImputer raises the invalid-fill-value error
\* when fill_value is neither "mean" nor "random", and otherwise returns one
\* value for each row of the predictor matrix it is given.  (On an instance
\* that was never fit the not-fitted error comes first.)
C13_LrdFillValue ==
    (op.name = "lrd_impute" /\ lrd.fitted) =>
       IF lrd.fill_value \in {"mean", "random"}
       THEN /\ err = "" /\ Len(ret) = 1
            /\ DOMAIN ret[1].cells = DOMAIN X0[1].cells
            /\ \A r \in DOMAIN ret[1].cells : ~isnull(ret[1].cells[r])
       ELSE err = "InvalidFillValue" /\ ret = <<>>

C13_Witness ==
    /\ op.name = "lrd_impute" /\ lrd.fitted
    /\ lrd.fill_value = "median" /\ err = "InvalidFillValue"

\* C14: statistics_ is made by fit alone.  No transform call, the first or a
\* later one, returning or raising, changes it; and after a fit that
\* succeeds it is what that fit alone computes (what a fresh imputer of the
\* same configuration gets from the same table), with nothing left of an
\* earlier fit.
C14_StatisticsOnlyByFit ==
    [][/\ op'.name = "transform" =>
            (imp'.statistics_ = imp.statistics_ /\ imp'.fitted = imp.fitted)
       /\ (op'.name = "fit" /\ err' = "") =>
            imp'.statistics_ =
               fit(init(imp'.strategy, imp'.copy).self, X0', "none").self.statistics_]_vars

C14_Witness ==
    /\ op.name = "transform" /\ err = "" /\ impLog # <<>>
    /\ fits = MaxSeqFits /\ transforms = MaxSeqTransforms
    /\ fitX # X0

\* The fitted columns whose resolved strategy samples a posterior.
SamplingCols(self) ==
    {self.statistics_[i].col :
        i \in {j \in DOMAIN self.statistics_ :
                  self.statistics_[j].strategy \in {BAYESIAN_LS, BAYESIAN_BINARY_LOGISTIC, PMM}}}

\* C15: after a transform that returns, the keys of traces_ are exactly the
\* fitted columns with a sampling strategy (bayesian least squares,
\* bayesian binary logistic, PMM) that had a null in the table of that call:
\* no other column has a trace and no trace of an earlier call is kept.
C15_TracesAreThisCallsSamplers ==
    (op.name = "transform" /\ err = "") =>
       {imp.traces_[i] : i \in DOMAIN imp.traces_} =
          {c \in SamplingCols(imp) : HasNull(Column(X0, c))}

C15_Witness ==
    /\ op.name = "transform" /\ err = "" /\ transforms = MaxSeqTransforms
    /\ Cardinality(SamplingCols(imp)) = 2
    /\ Len(imp.traces_) = 1

\* C16: transform(X, new_data=False) on the table X the imputer was fit on
\* uses the predictor data prepared from X, whatever transform calls came in
\* between: its outcome is the one computed from X and the fit statistics.
C16_PredictorsAreFitData ==
    (op.name = "transform" /\ ~op.new_data /\ imp.fitted /\ X0 = fitX) =>
       LET r == transform([imp EXCEPT !.data = _prep_fit_dataframe(fitX)],
                          X0, FALSE, "none", 0)
       IN  /\ imp.data = _prep_fit_dataframe(fitX)
           /\ err = r.err
           /\ ret = (IF r.err = "" THEN r.W ELSE <<>>)

\* C17: after every successful fit of an LRDImputer constructed without
\* prior means, the prior means are the least-squares intercept and
\* coefficients of that fit.  (Every LRDImputer of SeqSpec is constructed
\* without prior means.)
C17_PriorsAreThisFitsEstimates ==
    (op.name = "lrd_fit" /\ err = "") =>
       (lrd.prior.am = lrd.intercept_ /\ lrd.prior.bm = lrd.coef_)

====
